---- MODULE Spec2Model ----
(***************************************************************************)
(* The alert scheduler of f1bot (src/f1bot.py, src/parse_calendar.py):     *)
(* the polling task do_alerts, maybe_notify, cleanup, update_config, the   *)
(* handled set and the Event model.                                        *)
(*                                                                         *)
(* Time is counted in whole minutes (the unit of the configured lead       *)
(* times).  Python code that runs between two suspension points takes no   *)
(* time on that clock: the clock advances while the task sleeps between    *)
(* two ticks or awaits channel.send.                                       *)
(***************************************************************************)
EXTENDS Integers, Sequences, FiniteSets, TLC

VARIABLES
    now,            \* the wall clock, datetime.today(), in minutes
    grid,           \* the instants the clock takes in this run (fixed)
    sources,        \* the config contents an editor may write (fixed)
    budget,         \* the number of ticks this run follows (fixed)
    files,          \* config/config.yaml and config.yaml on disk
    events,         \* self.events: the Event objects, in calendar order
    config,         \* self.config["events"]: key -> list of lead times
    handled,        \* self.handled: set of <<notify_time, event object>>
    pc,             \* where the do_alerts task is
    ev,             \* do_alerts: index of the event of the for loop
    t0,             \* maybe_notify: the clock value its run read
    notify_times,   \* maybe_notify: the local notify_times
    alert_times,    \* maybe_notify: the local alert_times
    k,              \* maybe_notify: position in zip(alert_times, notify_times)
    next_iteration, \* tasks.loop: when the next iteration is due
    dispatched,     \* history: send_notify calls per <<notify_time, event>>
    swept,          \* history: events that were past at a cleanup() run
    ticks,          \* history: one record per run of do_alerts
    load,           \* the messages and file writes this run follows (fixed)
    msg_pc,         \* where the on_message handler is
    replies,        \* history: one record per message on_message answered
    msgs_file,      \* msgs.txt on disk: its text, or "missing"
    sff_pc,         \* where the send_from_file task is
    sff_text,       \* send_from_file: the local text
    sent,           \* history: one record per text send_from_file sent
    writes,         \* history: how often msgs.txt was written
    arg,            \* the argument of a function applied on its own
    res             \* its result

(* The state of on_message and send_from_file; a function on its own. *)
tasks == <<load, msg_pc, replies, msgs_file, sff_pc, sff_text, sent, writes>>
pure == <<arg, res>>

alerts == <<now, grid, sources, budget, files, events, config, handled, pc,
            ev, t0, notify_times, alert_times, k, next_iteration, dispatched,
            swept, ticks>>

vars == <<alerts, tasks, pure>>

----------------------------------------------------------------------------
(* Bounds of the model. *)
MaxTime == 4
MaxTicks == 3
MaxMinutes == 125
MaxInstant == 9
MaxMessages == 1
MaxWrites == 1
MaxEntries == 2

(* Event types, parse_calendar.py. *)
FP1 == 0
FP2 == 1
FP3 == 2
PRACTICE == 3
QUALIFYING == 4
SPRINT == 5
RACE == 6

(* EVENT_INTERVAL is 60 seconds: one minute. *)
EVENT_INTERVAL == 1

get_event_type_string(event_type) ==
    CASE event_type = FP1 -> "FP1"
      [] event_type = FP2 -> "FP2"
      [] event_type = FP3 -> "FP3"
      [] event_type = PRACTICE -> "Practice"
      [] event_type = QUALIFYING -> "Qualifying"
      [] event_type = SPRINT -> "Sprint"
      [] event_type = RACE -> "Race"

(* str.lower() on the seven labels. *)
lower(s) ==
    CASE s = "FP1" -> "fp1"
      [] s = "FP2" -> "fp2"
      [] s = "FP3" -> "fp3"
      [] s = "Practice" -> "practice"
      [] s = "Qualifying" -> "qualifying"
      [] s = "Sprint" -> "sprint"
      [] s = "Race" -> "race"
      [] s = "!F1" -> "!f1"
      [] s = "Practice 1" -> "practice 1"
      [] s = "Practice 3" -> "practice 3"
      [] s = "Sprint Qualifying" -> "sprint qualifying"
      [] s = "Grand Prix" -> "grand prix"
      [] s = "Testing" -> "testing"
      [] s = "Drivers Parade" -> "drivers parade"
      [] OTHER -> s   \* a string without upper-case letters

(* Event.__init__: the four stored fields. *)
Event(event_type, location, start, desc) ==
    [event_type |-> event_type, location |-> location,
     start |-> start, desc |-> desc]

event_string(e) == get_event_type_string(e.event_type)

(* Event.to_est returns the stored start unchanged. *)
to_est(e) == e.start

(* Mutant: an event counts as past one minute late. *)
already_happened_late(e, clock) == clock > to_est(e) + 1

(* Event.already_happened: the clock strictly after the start. *)
already_happened(e, clock) == clock > to_est(e)

(* Mutant: no Event object equals any, itself included. *)
event_eq_never(i, j) == FALSE

(* Class Event defines neither __eq__ nor __hash__: two Event objects are *)
(* equal exactly when they are the same object.  Objects are named by     *)
(* their position in self.events.                                         *)
event_eq(i, j) == i = j

(* Mutant: the membership test never finds a record. *)
in_handled_never(set, notify_time, i) == FALSE

(* (notify_time, event) in self.handled *)
in_handled(set, notify_time, i) ==
    \E r \in set : r[1] = notify_time /\ event_eq(r[2], i)

----------------------------------------------------------------------------
(* The config files.  A file is missing, malformed YAML, or YAML holding  *)
(* the "events" mapping cfg (a key that is absent from the mapping, or an *)
(* absent "events" key, make .get() return None).                         *)
NoCfg == [x \in {} |-> <<>>]
Missing == [kind |-> "missing", cfg |-> NoCfg]
Malformed == [kind |-> "malformed", cfg |-> NoCfg]
Yaml(c) == [kind |-> "yaml", cfg |-> c]

(* Mutant: the loaded mapping is merged into the previous one. *)
safe_load_merge(f, old) ==
    IF f.kind = "malformed"
    THEN [exc |-> "YAMLError", cfg |-> old]
    ELSE [exc |-> "none", cfg |-> f.cfg @@ old]

(* yaml.safe_load(cfg_file.read()) of an opened file *)
safe_load(f, old) ==
    IF f.kind = "malformed"
    THEN [exc |-> "YAMLError", cfg |-> old]
    ELSE [exc |-> "none", cfg |-> f.cfg]

(* update_config: config/config.yaml first, config.yaml when the first is *)
(* not found.  The result is the exception raised ("none": returned) and  *)
(* the value of self.config afterwards.                                   *)
update_config(fs, old) ==
    IF fs.primary.kind # "missing"
    THEN safe_load(fs.primary, old)
    ELSE IF fs.fallback.kind # "missing"
         THEN safe_load(fs.fallback, old)
         ELSE [exc |-> "FileNotFoundError", cfg |-> old]

(* Mutant: the lead time is added to nothing: the clock is left out. *)
get_event_dts_no_clock(times, clock) ==
    [i \in 1..Len(times) |-> times[i]]

(* get_event_dts: now + notify time, for each notify time, in order *)
get_event_dts(times, clock) ==
    [i \in 1..Len(times) |-> clock + times[i]]

(* tasks.loop: an exception leaving do_alerts ends the loop, except the   *)
(* connection errors (OSError, aiohttp.ClientError), after which the loop *)
(* runs the body again.                                                   *)
loop_retries(exc) == exc \in {"FileNotFoundError", "ClientError"}

(* What channel.send may raise. *)
SendErrors == {"HTTPException", "ClientError"}

(* Every lead time that occurs in one of the config contents srcs. *)
AllLeads(srcs) ==
    UNION {UNION {{c[key][i] : i \in 1..Len(c[key])} : key \in DOMAIN c} :
           c \in srcs}

----------------------------------------------------------------------------
(* The record the history keeps of one run of do_alerts. *)
NewTick(clock, exc, cfg) ==
    [at |-> clock, reload |-> exc, lists |-> cfg, evaluated |-> {},
     due |-> {}, fired |-> {}, lost |-> {}, exc |-> exc, done |-> FALSE]

(* The locals of maybe_notify, outside a run of it. *)
NoLocals ==
    /\ t0' = 0
    /\ notify_times' = <<>>
    /\ alert_times' = <<>>
    /\ k' = 0

(* An exception leaves do_alerts: the tick is over, the rest of its body  *)
(* is skipped, and tasks.loop either runs the body again or ends.         *)
Raise(exc) ==
    /\ pc' = IF loop_retries(exc) THEN "idle" ELSE "stopped"
    /\ next_iteration' = IF loop_retries(exc) THEN now ELSE next_iteration
    /\ ev' = 0
    /\ NoLocals

(* do_alerts starts: self.update_config() *)
StartTick ==
    /\ UNCHANGED <<tasks, pure>>
    /\ pc = "idle"
    /\ Len(ticks) < budget
    /\ now >= next_iteration
    /\ LET r == update_config(files, config) IN
       /\ config' = r.cfg
       /\ ticks' = Append(ticks, NewTick(now, r.exc, r.cfg))
       /\ IF r.exc = "none"
          THEN /\ pc' = "events"
               /\ ev' = 1
               /\ next_iteration' = now + EVENT_INTERVAL
               /\ NoLocals
          ELSE Raise(r.exc)
    /\ UNCHANGED <<now, grid, sources, budget, files, events, handled, dispatched,
                   swept>>

(* History: the pairs that a run of maybe_notify at time clock finds due, *)
(* the event starting within the lead time.                               *)
Due(i, times, clock) ==
    {<<times[j], i>> : j \in {x \in 1..Len(times) :
                                 clock + times[x] > events[i].start}}

(* maybe_notify(event) up to the for loop over the lead times *)
MaybeNotify ==
    /\ UNCHANGED <<tasks, pure>>
    /\ pc = "events"
    /\ ev <= Len(events)
    /\ LET e == events[ev]
           key == lower(event_string(e))
       IN
       IF already_happened(e, now)
       THEN /\ ev' = ev + 1
            /\ ticks' = [ticks EXCEPT ![Len(ticks)].evaluated = @ \cup {ev}]
            /\ UNCHANGED <<pc, t0, notify_times, alert_times, k,
                           next_iteration>>
       ELSE IF key \notin DOMAIN config
       THEN \* notify_times is None: get_event_dts(None) raises TypeError
            /\ ticks' = [ticks EXCEPT ![Len(ticks)].evaluated = @ \cup {ev},
                                      ![Len(ticks)].exc = "TypeError"]
            /\ Raise("TypeError")
       ELSE /\ ticks' = [ticks EXCEPT
                          ![Len(ticks)].evaluated = @ \cup {ev},
                          ![Len(ticks)].due = @ \cup Due(ev, config[key], now)]
            /\ t0' = now
            /\ notify_times' = config[key]
            /\ alert_times' = get_event_dts(config[key], now)
            /\ k' = 1
            /\ pc' = "leads"
            /\ UNCHANGED <<ev, next_iteration>>
    /\ UNCHANGED <<now, grid, sources, budget, files, events, config, handled,
                   dispatched, swept>>

(* Mutant: an alert time equal to the start fires too. *)
Fires_on_equal(i, notify_time, alert_time, set) ==
    /\ ~in_handled(set, notify_time, i)
    /\ alert_time >= to_est(events[i])

(* One pass of the for loop of maybe_notify, up to the await: the test of *)
(* the handled set and of the alert time.                                 *)
Fires(i, notify_time, alert_time, set) ==
    /\ ~in_handled(set, notify_time, i)
    /\ alert_time > to_est(events[i])

(* Mutant: the pair is sent without a record of it being added. *)
LeadStep_no_record ==
    /\ UNCHANGED <<tasks, pure>>
    /\ pc = "leads"
    /\ IF k > Len(notify_times)
       THEN /\ pc' = "events"
            /\ ev' = ev + 1
            /\ NoLocals
            /\ UNCHANGED <<handled, dispatched, ticks>>
       ELSE IF Fires(ev, notify_times[k], alert_times[k], handled)
       THEN /\ dispatched' =
                   [dispatched EXCEPT ![<<notify_times[k], ev>>] = @ + 1]
            /\ ticks' = [ticks EXCEPT ![Len(ticks)].fired =
                                          @ \cup {<<notify_times[k], ev>>}]
            /\ pc' = "send"
            /\ UNCHANGED <<ev, t0, notify_times, alert_times, k, handled>>
       ELSE /\ k' = k + 1
            /\ UNCHANGED <<pc, ev, t0, notify_times, alert_times, handled,
                           dispatched, ticks>>
    /\ UNCHANGED <<now, grid, sources, budget, files, events, config,
                   next_iteration, swept>>

LeadStep ==
    /\ UNCHANGED <<tasks, pure>>
    /\ pc = "leads"
    /\ IF k > Len(notify_times)
       THEN \* zip is exhausted: maybe_notify returns
            /\ pc' = "events"
            /\ ev' = ev + 1
            /\ NoLocals
            /\ UNCHANGED <<handled, dispatched, ticks>>
       ELSE IF Fires(ev, notify_times[k], alert_times[k], handled)
       THEN /\ handled' = handled \cup {<<notify_times[k], ev>>}
            /\ dispatched' =
                   [dispatched EXCEPT ![<<notify_times[k], ev>>] = @ + 1]
            /\ ticks' = [ticks EXCEPT ![Len(ticks)].fired =
                                          @ \cup {<<notify_times[k], ev>>}]
            /\ pc' = "send"
            /\ UNCHANGED <<ev, t0, notify_times, alert_times, k>>
       ELSE /\ k' = k + 1
            /\ UNCHANGED <<pc, ev, t0, notify_times, alert_times, handled,
                           dispatched, ticks>>
    /\ UNCHANGED <<now, grid, sources, budget, files, events, config,
                   next_iteration, swept>>

(* await channel.send(...) returns *)
SendOk ==
    /\ UNCHANGED <<tasks, pure>>
    /\ pc = "send"
    /\ pc' = "leads"
    /\ k' = k + 1
    /\ UNCHANGED <<now, grid, sources, budget, files, events, config, handled, ev,
                   t0, notify_times, alert_times, next_iteration,
                   dispatched, swept, ticks>>

(* await channel.send(...) raises: nothing on the way out catches it *)
SendFail ==
    /\ UNCHANGED <<tasks, pure>>
    /\ pc = "send"
    /\ \E exc \in SendErrors :
         /\ ticks' = [ticks EXCEPT ![Len(ticks)].exc = exc,
                                   ![Len(ticks)].lost =
                                       @ \cup {<<notify_times[k], ev>>}]
         /\ Raise(exc)
    /\ UNCHANGED <<now, grid, sources, budget, files, events, config, handled,
                   dispatched, swept>>

(* Mutant: cleanup removes the records of the events still to come. *)
cleanup_inverted(set, clock) ==
    {r \in set : already_happened(events[r[2]], clock)}

(* Mutant: cleanup removes every record. *)
cleanup_all(set, clock) == {}

(* Mutant: cleanup removes nothing. *)
cleanup_keeps_all(set, clock) == set

(* cleanup(): the records of the events that have happened are removed *)
cleanup(set, clock) ==
    {r \in set : ~already_happened(events[r[2]], clock)}

Cleanup ==
    /\ UNCHANGED <<tasks, pure>>
    /\ pc = "events"
    /\ ev > Len(events)
    /\ handled' = cleanup(handled, now)
    /\ swept' = swept \cup
                  {i \in 1..Len(events) : already_happened(events[i], now)}
    /\ ticks' = [ticks EXCEPT ![Len(ticks)].done = TRUE]
    /\ pc' = "idle"
    /\ ev' = 0
    /\ UNCHANGED <<now, grid, sources, budget, files, events, config, t0,
                   notify_times, alert_times, k, next_iteration,
                   dispatched>>

(* The clock advances, while the task is suspended. *)
Advance ==
    /\ UNCHANGED <<tasks, pure>>
    /\ pc \in {"idle", "send", "stopped"}
    /\ \E t \in grid : t > now /\ now' = t
    /\ UNCHANGED <<grid, sources, budget, files, events, config, handled, pc, ev,
                   t0, notify_times, alert_times, k, next_iteration,
                   dispatched, swept, ticks>>

(* Somebody edits, breaks or removes one of the config files.  The files *)
(* are read at the start of a tick only, so an edit made while a tick     *)
(* runs is the same edit made right after it.                             *)
FileStates(srcs) == {Missing, Malformed} \cup {Yaml(c) : c \in srcs}

EditConfig ==
    /\ UNCHANGED <<tasks, pure>>
    /\ pc = "idle"
    /\ Len(ticks) < budget
    /\ \E name \in {"primary", "fallback"}, f \in FileStates(sources) :
         /\ files[name] # f
         /\ files' = [files EXCEPT ![name] = f]
    /\ UNCHANGED <<now, grid, sources, budget, events, config, handled, pc, ev, t0,
                   notify_times, alert_times, k, next_iteration,
                   dispatched, swept, ticks>>

Next ==
    \/ StartTick
    \/ MaybeNotify
    \/ LeadStep
    \/ SendOk
    \/ SendFail
    \/ Cleanup
    \/ Advance
    \/ EditConfig

----------------------------------------------------------------------------
(* The state after F1BotClient.__init__, for a calendar, a clock and a    *)
(* set of config contents: the first update_config() has succeeded (the   *)
(* constructor fails otherwise and no client exists).                     *)
InitWith(calendars, instants, srcs, n) ==
    /\ grid = instants
    /\ sources = srcs
    /\ budget = n
    /\ now \in {t \in instants : \A u \in instants : t <= u}
    /\ events \in calendars
    /\ files \in [{"primary", "fallback"} -> FileStates(srcs)]
    /\ update_config(files, NoCfg).exc = "none"
    /\ config = update_config(files, NoCfg).cfg
    /\ handled = {}
    /\ pc = "idle"
    /\ ev = 0
    /\ t0 = 0
    /\ notify_times = <<>>
    /\ alert_times = <<>>
    /\ k = 0
    /\ next_iteration = now
    /\ dispatched = [r \in AllLeads(srcs) \X (1..Len(events)) |-> 0]
    /\ swept = {}
    /\ ticks = <<>>
    /\ msg_pc = "idle"
    /\ replies = <<>>
    /\ msgs_file = "missing"
    /\ sff_pc = "idle"
    /\ sff_text = ""
    /\ sent = <<>>
    /\ writes = 0

(* The scheduler on its own: no message arrives, msgs.txt is not written, *)
(* no function is applied on its own.                                     *)
NoCall ==
    /\ load = [inbox |-> {}, messages |-> 0, texts |-> {},
               writes |-> 0]
    /\ arg = "none"
    /\ res = <<>>

(* The small world: three calendars (the last one holds the same entry   *)
(* twice), the clock on every minute up to MaxTime.                       *)
Calendars ==
    {<<Event(RACE, "Monza", 2, "Grand Prix"),
       Event(QUALIFYING, "Monza", 3, "Qualifying")>>,
     <<Event(QUALIFYING, "Spa", 2, "Qualifying"),
       Event(RACE, "Spa", 3, "Grand Prix")>>,
     <<Event(RACE, "Imola", 3, "Grand Prix"),
       Event(RACE, "Imola", 3, "Grand Prix")>>}

(* Two config contents: one with lead times for both types, one with an  *)
(* empty list for races and no key for qualifying.                        *)
CfgBoth == ("race" :> <<3, 1>>) @@ ("qualifying" :> <<2>>)
CfgEmpty == ("race" :> <<>>)

Sources == {CfgBoth, CfgEmpty}

Init == InitWith(Calendars, 0..MaxTime, Sources, MaxTicks) /\ NoCall

Spec == Init /\ [][Next]_vars

(* The end-to-end scenario: one race that starts 50 minutes after the     *)
(* first instant, lead times [60, 15], and a config that an editor may    *)
(* empty, strip of its race key, or restore.                              *)
CfgE2E == ("race" :> <<60, 15>>)
CfgNoRace == ("qualifying" :> <<60, 15>>)

InitE2E ==
    InitWith({<<Event(RACE, "Monaco", 50, "Grand Prix")>>},
             {0, 40, 51, 52},
             {CfgE2E, CfgEmpty, CfgNoRace},
             MaxTicks + 1)
    /\ NoCall

SpecE2E == InitE2E /\ [][Next]_vars

(* The three-lead scenario: one race that starts 45 minutes after the     *)
(* first instant, lead times [60, 30, 10].                                *)
CfgOrder == ("race" :> <<60, 30, 10>>)

InitOrder ==
    InitWith({<<Event(RACE, "Suzuka", 45, "Grand Prix")>>},
             {0, 10, 20, 46},
             {CfgOrder, CfgNoRace},
             MaxTicks)
    /\ NoCall

SpecOrder == InitOrder /\ [][Next]_vars

(* The repeated lead time: one race, lead times [2, 2]. *)
CfgDup == ("race" :> <<2, 2>>)

InitDup ==
    InitWith({<<Event(RACE, "Spa", 3, "Grand Prix"),
                Event(RACE, "Zandvoort", 4, "Grand Prix")>>},
             0..MaxTime,
             {CfgDup, CfgEmpty},
             MaxTicks)
    /\ NoCall

SpecDup == InitDup /\ [][Next]_vars

----------------------------------------------------------------------------
(* The command handlers.  A message is the list message.content.split()  *)
(* and whether the bot itself wrote it; a response is a str or an Embed   *)
(* (for an Embed: its title and the event it shows).                      *)
Str(text) == [embed |-> FALSE, title |-> text, event |-> 0]
Embed(title, i) == [embed |-> TRUE, title |-> title, event |-> i]

(* None, as the event type of "next" without a type: no type is negative *)
None == -2

(* arg_map.get(arg, -1) of handle_next *)
arg_map(a) ==
    CASE a = "fp1" -> FP1
      [] a = "fp2" -> FP2
      [] a = "fp3" -> FP3
      [] a = "practice" -> PRACTICE
      [] a = "qualifying" -> QUALIFYING
      [] a = "sprint" -> SPRINT
      [] a = "race" -> RACE
      [] a = "quali" -> QUALIFYING
      [] a = "event" -> None
      [] OTHER -> -1

(* not x, for x an event type or None: true of None and of 0 *)
falsy(x) == x = None \/ x = 0

(* __get_next_event: the first event that has not happened and, when a    *)
(* type is given, is of that type; 0 when there is none (None).           *)
get_next_event(event_type, clock) ==
    LET hits == {i \in 1..Len(events) :
                   /\ ~already_happened(events[i], clock)
                   /\ (falsy(event_type) \/ events[i].event_type = event_type)}
    IN IF hits = {} THEN 0
       ELSE CHOOSE i \in hits : \A j \in hits : i <= j

handle_next(args, clock) ==
    LET event_type == IF args = <<>> THEN None ELSE arg_map(lower(args[1]))
        next_event == get_next_event(event_type, clock)
    IN IF event_type = -1
       THEN Str("I don't recognize the event type '" \o args[1]
                \o "' try something else")
       ELSE IF next_event = 0 /\ ~falsy(event_type)
       THEN Str("No more " \o get_event_type_string(event_type)
                \o "s this season :(\n(maybe update the calendar?)")
       ELSE IF next_event = 0
       THEN Str("No more events this season :(\n(maybe update the calendar?)")
       ELSE Embed("Next " \o event_string(events[next_event]), next_event)

(* message_handler: the handler of the prefix, or the fallback text.  The *)
(* standings and calendar tables are left as one text each.               *)
message_handler(prefix, args, clock) ==
    CASE prefix = "ping" -> Str("pong")
      [] prefix = "next" -> handle_next(args, clock)
      [] prefix = "foksmash" ->
             Str("https://www.youtube.com/watch?v=5h4FDy9Eqzs")
      [] prefix = "standings" -> Str("standings table")
      [] prefix = "calendar" -> Str("calendar table")
      [] OTHER -> Str("Command not supported")

(* A message of the bot itself, and one of somebody else. *)
Own(parts) == [own |-> TRUE, parts |-> parts]
Msg(parts) == [own |-> FALSE, parts |-> parts]

(* The asyncio loop runs one coroutine at a time: another task runs only  *)
(* while do_alerts is suspended, between two ticks or in an await.        *)
Suspended == pc \in {"idle", "send", "stopped"}

(* The history record of one message. *)
Received(m, response, status) ==
    [own |-> m.own, parts |-> m.parts, response |-> response,
     status |-> status, in_send |-> (pc = "send")]

(* on_message, up to its await *)
OnMessage ==
    /\ Suspended
    /\ msg_pc = "idle"
    /\ Len(replies) < load.messages
    /\ \E m \in load.inbox :
         IF m.own \/ m.parts = <<>> \/ lower(m.parts[1]) # "!f1"
         THEN /\ replies' = Append(replies, Received(m, Str(""), "ignored"))
              /\ UNCHANGED msg_pc
         ELSE IF Len(m.parts) < 2
         THEN \* Command(parts): parts[1] raises IndexError
              /\ replies' =
                    Append(replies, Received(m, Str(""), "IndexError"))
              /\ UNCHANGED msg_pc
         ELSE /\ replies' =
                    Append(replies,
                           Received(m,
                                    message_handler(m.parts[2],
                                                    SubSeq(m.parts, 3,
                                                           Len(m.parts)),
                                                    now),
                                    "sending"))
              /\ msg_pc' = "send"
    /\ UNCHANGED <<alerts, load, msgs_file, sff_pc, sff_text, sent, writes,
                   pure>>

(* Mutant: the handler resets self.config when its reply is sent. *)
ReplyOk_resets_config ==
    /\ Suspended
    /\ msg_pc = "send"
    /\ msg_pc' = "idle"
    /\ replies' = [replies EXCEPT ![Len(replies)].status = "sent"]
    /\ config' = NoCfg
    /\ UNCHANGED <<now, grid, sources, budget, files, events, handled, pc,
                   ev, t0, notify_times, alert_times, k, next_iteration,
                   dispatched, swept, ticks>>
    /\ UNCHANGED <<load, msgs_file, sff_pc, sff_text, sent, writes, pure>>

(* await message.channel.send(...) returns *)
ReplyOk ==
    /\ Suspended
    /\ msg_pc = "send"
    /\ msg_pc' = "idle"
    /\ replies' = [replies EXCEPT ![Len(replies)].status = "sent"]
    /\ UNCHANGED <<alerts, load, msgs_file, sff_pc, sff_text, sent, writes,
                   pure>>

(* await message.channel.send(...) raises: the exception leaves on_message *)
ReplyFail ==
    /\ Suspended
    /\ msg_pc = "send"
    /\ msg_pc' = "idle"
    /\ replies' = [replies EXCEPT ![Len(replies)].status = "failed"]
    /\ UNCHANGED <<alerts, load, msgs_file, sff_pc, sff_text, sent, writes,
                   pure>>

(* Somebody writes msgs.txt. *)
WriteMsgs ==
    /\ writes < load.writes
    /\ \E text \in load.texts : msgs_file' = text
    /\ writes' = writes + 1
    /\ UNCHANGED <<alerts, load, msg_pc, replies, sff_pc, sff_text, sent, pure>>

(* send_from_file, up to its await: without a file open() raises, and the *)
(* except clause ends the run.                                            *)
SffStart ==
    /\ Suspended
    /\ sff_pc = "idle"
    /\ IF msgs_file = "missing"
       THEN UNCHANGED <<sff_pc, sff_text>>
       ELSE /\ sff_text' = msgs_file
            /\ sff_pc' = "send"
    /\ UNCHANGED <<alerts, load, msg_pc, replies, msgs_file, sent, writes,
                   pure>>

(* await channel.send(text) returns, then os.remove("msgs.txt") *)
SffSendOk ==
    /\ Suspended
    /\ sff_pc = "send"
    /\ sent' = Append(sent, [text |-> sff_text, in_send |-> (pc = "send")])
    /\ msgs_file' = "missing"
    /\ sff_pc' = "idle"
    /\ sff_text' = ""
    /\ UNCHANGED <<alerts, load, msg_pc, replies, writes, pure>>

(* await channel.send(text) raises: the except clause ends the run *)
SffSendFail ==
    /\ Suspended
    /\ sff_pc = "send"
    /\ sff_pc' = "idle"
    /\ sff_text' = ""
    /\ UNCHANGED <<alerts, load, msg_pc, replies, msgs_file, sent, writes,
                   pure>>

NextTasks ==
    \/ Next
    \/ OnMessage
    \/ ReplyOk
    \/ ReplyFail
    \/ WriteMsgs
    \/ SffStart
    \/ SffSendOk
    \/ SffSendFail

(* The three tasks together: one race weekend, the clock on 2 and 3,     *)
(* messages to the bot and texts in msgs.txt.                             *)
InitTasks ==
    /\ InitWith({<<Event(RACE, "Monza", 2, "Grand Prix"),
                   Event(QUALIFYING, "Monza", 3, "Qualifying")>>},
                {2, 3},
                {CfgBoth},
                MaxTicks - 1)
    /\ load = [inbox |-> {Own(<<"!f1", "ping">>),
                          Msg(<<"!F1", "next", "race">>)},
               messages |-> MaxMessages,
               texts |-> {"lights out"},
               writes |-> MaxWrites]
    /\ arg = "none"
    /\ res = <<>>

SpecTasks == InitTasks /\ [][NextTasks]_vars

(* The commands on their own: a weekend of three events, the clock at    *)
(* one instant, every kind of message; no tick runs.                      *)
TypeWords ==
    {"fp1", "fp2", "fp3", "practice", "qualifying", "sprint", "race"}

NextQueries ==
    {Msg(<<"!f1", "next">>), Msg(<<"!f1", "next", "event">>),
     Msg(<<"!f1", "next", "quali">>), Msg(<<"!f1", "next", "laps">>)}
        \cup {Msg(<<"!f1", "next", a>>) : a \in TypeWords}

OtherMessages ==
    {Own(<<"!f1", "ping">>), Msg(<<>>), Msg(<<"hello">>), Msg(<<"!f1">>),
     Msg(<<"!F1", "ping">>), Msg(<<"!f1", "bogus">>),
     Msg(<<"!f1", "foksmash">>), Msg(<<"!f1", "standings">>),
     Msg(<<"!f1", "calendar">>)}

NextChat ==
    \/ OnMessage
    \/ ReplyOk
    \/ ReplyFail

InitChat ==
    /\ \E t \in 0..MaxTime :
         InitWith({<<Event(RACE, "Monza", 1, "Grand Prix"),
                     Event(FP1, "Spa", 2, "Practice 1"),
                     Event(QUALIFYING, "Spa", 3, "Qualifying")>>},
                  {t},
                  {CfgBoth},
                  0)
    /\ load = [inbox |-> NextQueries \cup OtherMessages,
               messages |-> MaxMessages,
               texts |-> {},
               writes |-> 0]
    /\ arg = "none"
    /\ res = <<>>

SpecChat == InitChat /\ [][NextChat]_vars

(* send_from_file and the writer of msgs.txt on their own: two texts, and *)
(* one write more than MaxWrites; no tick runs.                           *)
NextFile ==
    \/ WriteMsgs
    \/ SffStart
    \/ SffSendOk
    \/ SffSendFail

InitFile ==
    /\ InitWith({<<Event(RACE, "Monaco", 50, "Grand Prix")>>}, {0},
                {CfgE2E, CfgEmpty}, 0)
    /\ load = [inbox |-> {}, messages |-> 0,
               texts |-> {"lights out", "red flag"},
               writes |-> MaxWrites + 1]
    /\ arg = "none"
    /\ res = <<>>

SpecFile == InitFile /\ [][NextFile]_vars

----------------------------------------------------------------------------
(* Calendar ingestion: get_event_type, Event.from_ics and get_events,     *)
(* applied on their own to a calendar of up to MaxEntries components.     *)

(* needle in text *)
contains(text, needle) ==
    \E i \in 1..(Len(text) - Len(needle) + 1) :
        SubSeq(text, i, i + Len(needle) - 1) = needle

(* Event names in calendar *)
CAL_FP1 == {"fp1", "practice 1"}
CAL_FP2 == {"fp2", "practice 2"}
CAL_FP3 == {"fp3", "practice 3"}
CAL_PRAC == {"practice"}
CAL_QUAL == {"qualifying", "qualification"}
CAL_SPRINT == {"sprint"}
CAL_RACE == {"race", "grand prix"}

(* any(i in summary.lower() for i in names) *)
any_in(names, summary) == \E i \in names : contains(lower(summary), i)

(* The value a call returns, or the exception it raises. *)
Returns(v) == [exc |-> "none", value |-> v]
Raises(exc) == [exc |-> exc, value |-> <<>>]

(* Mutant: a summary that names no type counts as a race. *)
get_event_type_or_race(summary) ==
    IF any_in(CAL_FP1, summary) THEN Returns(FP1)
    ELSE IF any_in(CAL_FP2, summary) THEN Returns(FP2)
    ELSE IF any_in(CAL_FP3, summary) THEN Returns(FP3)
    ELSE IF any_in(CAL_PRAC, summary) THEN Returns(PRACTICE)
    ELSE IF any_in(CAL_QUAL, summary) THEN Returns(QUALIFYING)
    ELSE IF any_in(CAL_SPRINT, summary) THEN Returns(SPRINT)
    ELSE Returns(RACE)

get_event_type(summary) ==
    IF any_in(CAL_FP1, summary) THEN Returns(FP1)
    ELSE IF any_in(CAL_FP2, summary) THEN Returns(FP2)
    ELSE IF any_in(CAL_FP3, summary) THEN Returns(FP3)
    ELSE IF any_in(CAL_PRAC, summary) THEN Returns(PRACTICE)
    ELSE IF any_in(CAL_QUAL, summary) THEN Returns(QUALIFYING)
    ELSE IF any_in(CAL_SPRINT, summary) THEN Returns(SPRINT)
    ELSE IF any_in(CAL_RACE, summary) THEN Returns(RACE)
    ELSE Raises("ValueError")

(* Event.from_ics: the exception of get_event_type is not caught *)
from_ics(component) ==
    LET event_type == get_event_type(component.summary)
    IN IF event_type.exc # "none"
       THEN Raises(event_type.exc)
       ELSE Returns(Event(event_type.value, component.location,
                          component.start, component.summary))

(* get_events: cal.walk(), one Event per VEVENT; an exception of from_ics *)
(* ends the loop and leaves get_events.                                   *)
get_events(cal) ==
    LET walk[i \in 0..Len(cal)] ==
            IF i = 0 THEN Returns(<<>>)
            ELSE IF walk[i - 1].exc # "none" THEN walk[i - 1]
            ELSE IF cal[i].name # "VEVENT" THEN walk[i - 1]
            ELSE LET event == from_ics(cal[i])
                 IN IF event.exc # "none"
                    THEN Raises(event.exc)
                    ELSE Returns(Append(walk[i - 1].value, event.value))
    IN walk[Len(cal)]

(* The components of a calendar file. *)
VEvent(summary) ==
    [name |-> "VEVENT", summary |-> summary, location |-> "Monza",
     start |-> 2]

Summaries ==
    {"Practice 1", "FP2", "Practice", "Sprint Qualifying", "Qualifying",
     "Grand Prix", "Race", "Testing", "Drivers Parade"}

Components ==
    {VEvent(summary) : summary \in Summaries}
        \cup {[name |-> "VTIMEZONE", summary |-> "", location |-> "",
               start |-> 0]}

GetEvents ==
    /\ res = <<>>
    /\ res' = <<get_events(arg)>>
    /\ UNCHANGED <<alerts, tasks, arg>>

InitIngest ==
    /\ InitWith({<<Event(RACE, "Monaco", 50, "Grand Prix")>>}, {0},
                {CfgE2E}, 0)
    /\ load = [inbox |-> {}, messages |-> 0, texts |-> {},
               writes |-> 0]
    /\ arg \in UNION {[1..n -> Components] : n \in 0..MaxEntries}
    /\ res = <<>>

SpecIngest == InitIngest /\ [][GetEvents]_vars

----------------------------------------------------------------------------
(* normalize_time(when), applied on its own to every number of minutes up *)
(* to MaxMinutes.                                                         *)
normalize_time(when) ==
    LET hours == when \div 60
        minutes == when - hours * 60
        norm == IF hours # 0 /\ hours = 1
                THEN ToString(hours) \o " hour "
                ELSE IF hours # 0
                     THEN ToString(hours) \o " hours "
                     ELSE ""
    IN IF minutes # 0 /\ minutes = 1
       THEN norm \o ToString(minutes) \o " minute"
       ELSE IF minutes # 0
            THEN norm \o ToString(minutes) \o " minutes"
            ELSE norm

NormalizeTime ==
    /\ res = <<>>
    /\ res' = <<normalize_time(arg)>>
    /\ UNCHANGED <<alerts, tasks, arg>>

InitText ==
    /\ InitWith({<<Event(RACE, "Monaco", 50, "Grand Prix")>>}, {0},
                {CfgE2E}, 0)
    /\ load = [inbox |-> {}, messages |-> 0, texts |-> {},
               writes |-> 0]
    /\ arg \in 0..MaxMinutes
    /\ res = <<>>

SpecText == InitText /\ [][NormalizeTime]_vars

----------------------------------------------------------------------------
(* The datetime values behind the minutes of the clock: a datetime is     *)
(* naive (tzinfo None) or aware.  The scheduler above is the case of      *)
(* aware starts, as the calendar file gives them.                         *)
Naive(t) == [t |-> t, tzinfo |-> "None"]
Aware(t) == [t |-> t, tzinfo |-> "US/Eastern"]

(* est.localize(dt) of a naive datetime: the same wall time, now aware *)
localize(dt) == [dt EXCEPT !.tzinfo = "US/Eastern"]

(* a > b on datetime objects: comparing an aware and a naive datetime     *)
(* raises TypeError.                                                      *)
datetime_gt(a, b) ==
    IF (a.tzinfo = "None") # (b.tzinfo = "None")
    THEN "TypeError"
    ELSE IF a.t > b.t THEN "True" ELSE "False"

(* test_event: the start is datetime.today() + offset, a naive datetime *)
test_event(event_type, location, desc, offset, today) ==
    Event(event_type, location, Naive(today + offset), desc)

(* Event.already_happened on datetime objects *)
already_happened_dt(e, today) ==
    datetime_gt(localize(Naive(today)), to_est(e))

(* maybe_notify(event) on datetime objects, with an empty handled set:    *)
(* how the call ends.                                                     *)
maybe_notify_dt(e, times, today) ==
    LET past == already_happened_dt(e, today)
        dts == [i \in 1..Len(times) |-> localize(Naive(today + times[i]))]
    IN IF past = "TypeError"
       THEN "TypeError"
       ELSE IF past = "True"
            THEN "returned"
            ELSE IF \E i \in 1..Len(times) :
                         datetime_gt(dts[i], to_est(e)) = "TypeError"
                 THEN "TypeError"
                 ELSE "returned"

(* An event built by test_event at instant 0 and the event with the same  *)
(* start in US/Eastern, both asked at the instant arg.today.              *)
ZoneCheck ==
    /\ res = <<>>
    /\ LET naive == test_event(RACE, "Test", "Test", arg.offset, 0)
           aware == Event(RACE, "Test", Aware(arg.offset), "Test")
       IN res' = <<[naive |-> already_happened_dt(naive, arg.today),
                    aware |-> already_happened_dt(aware, arg.today),
                    notify |-> maybe_notify_dt(naive, <<3, 1>>, arg.today)]>>
    /\ UNCHANGED <<alerts, tasks, arg>>

InitZone ==
    /\ InitWith({<<Event(RACE, "Monaco", 50, "Grand Prix")>>}, {0},
                {CfgE2E}, 0)
    /\ load = [inbox |-> {}, messages |-> 0, texts |-> {},
               writes |-> 0]
    /\ arg \in [offset : 0..MaxInstant, today : 0..MaxInstant]
    /\ res = <<>>

SpecZone == InitZone /\ [][ZoneCheck]_vars

----------------------------------------------------------------------------
(* Shorthands of the properties. *)
Objects == 1..Len(events)

Key(i) == lower(event_string(events[i]))

(* Tick n is over: a later tick has started, or the task is not in one. *)
Over(n) == n < Len(ticks) \/ pc \in {"idle", "stopped"}

(* Tick n ran with list `times` configured for the type of event i. *)
Uses(n, i, times) ==
    /\ Key(i) \in DOMAIN ticks[n].lists
    /\ ticks[n].lists[Key(i)] = times

(* Tick n ran to its end, cleanup() included, nothing raised. *)
Clean(n) == ticks[n].done /\ ticks[n].exc = "none"

----------------------------------------------------------------------------
(* C1: for every event E and lead time L, when a run of maybe_notify(E)   *)
(* before E's start has found E starting within L minutes (L configured   *)
(* for E's type), then once the ticks before E's start are all over (E    *)
(* has started and no tick is running, or the loop has ended) exactly one *)
(* notification for (E, L) has been dispatched: never zero, never two.    *)
C1_ExactlyOneDispatch ==
    /\ \A r \in DOMAIN dispatched : dispatched[r] <= 1
    /\ \A n \in 1..Len(ticks) : \A r \in ticks[n].due :
         (\/ pc = "stopped"
          \/ pc = "idle" /\ already_happened(events[r[2]], now))
         => dispatched[r] = 1

(* C2: a run of cleanup() leaves no record of an event whose start the    *)
(* clock has passed, and after a cleanup() that ran with event E in the   *)
(* past, no step dispatches a notification for E again.                   *)
C2_CleanupThenSilence ==
    [][/\ (pc = "events" /\ ev > Len(events))
            => \A r \in handled' : ~already_happened(events[r[2]], now)
       /\ \A r \in DOMAIN dispatched :
            r[2] \in swept => dispatched'[r] = dispatched[r]]_vars

(* C2, its case: an event that fired, was swept by a cleanup(), and was   *)
(* evaluated again by a later clean tick whose config has lead times for  *)
(* its type; the handled set holds no record of it.                       *)
C2_Witness ==
    \E n \in 2..Len(ticks), i \in Objects :
        /\ Clean(n - 1)
        /\ ticks[n - 1].at > events[i].start
        /\ i \in swept
        /\ Clean(n)
        /\ i \in ticks[n].evaluated
        /\ Key(i) \in DOMAIN ticks[n].lists
        /\ ticks[n].lists[Key(i)] # <<>>
        /\ \E r \in DOMAIN dispatched : r[2] = i /\ dispatched[r] = 1
        /\ \A r \in handled : r[2] # i

(* C3: when the reload fails on the second tick (the first one loaded and *)
(* ran to its end), tick 2 runs with the lists of tick 1 and still evaluates every event,  *)
(* and a third tick whose reload succeeds runs with the lists it loads.   *)
C3_FailedReloadKeepsTickGoing ==
    (/\ Len(ticks) >= 2
     /\ Clean(1)
     /\ ticks[2].reload # "none"
     /\ Over(2))
    => /\ ticks[2].lists = ticks[1].lists
       /\ ticks[2].evaluated = Objects
       /\ (Len(ticks) = 3 /\ ticks[3].reload = "none" /\ ~Over(3))
            => ticks[3].lists = update_config(files, NoCfg).cfg

(* C4: a tick in which something raised never leaves the loop stopped:    *)
(* the next tick is still scheduled.                                      *)
C4_FailureNeverStopsLoop ==
    \A n \in 1..Len(ticks) :
        (ticks[n].exc # "none" /\ Over(n)) => pc # "stopped"

(* C5: a tick that evaluates an event whose type has no list in the       *)
(* config, or an empty one, dispatches nothing for it and raises no       *)
(* error for it: no TypeError ends the tick.                              *)
C5_NoListIsNoError ==
    \A n \in 1..Len(ticks) : \A i \in ticks[n].evaluated :
        (Key(i) \notin DOMAIN ticks[n].lists
            \/ ticks[n].lists[Key(i)] = <<>>)
        => /\ \A r \in ticks[n].fired : r[2] # i
           /\ ticks[n].exc # "TypeError"

(* C6: when the send for (E, L) fails, that pair has been dispatched      *)
(* exactly once and is never sent again, and the tick still evaluates     *)
(* every event.                                                           *)
C6_SendFailureIsNotFatal ==
    \A n \in 1..Len(ticks) : \A r \in ticks[n].lost :
        /\ dispatched[r] = 1
        /\ Over(n) => ticks[n].evaluated = Objects

(* C7: two Event objects whose stored fields are all equal share their    *)
(* dedup records: for each lead time at most one notification is          *)
(* dispatched for the two together.                                       *)
C7_EqualEventsShareRecords ==
    \A i \in Objects, j \in Objects :
        (i # j /\ events[i] = events[j])
        => \A r \in DOMAIN dispatched :
             r[2] = i => dispatched[r] + dispatched[<<r[1], j>>] <= 1

(* C8: the event starts at T+50 with lead times [60, 15].  The tick at T  *)
(* dispatches lead 60 and nothing else, the tick at T+40 dispatches lead  *)
(* 15 and nothing else, the tick at T+51 dispatches nothing and its       *)
(* cleanup() leaves no record, and no later tick dispatches anything,     *)
(* whatever the config then holds.                                        *)
C8_First == Len(ticks) >= 1 /\ ticks[1].at = 0 /\ Uses(1, 1, <<60, 15>>)

C8_Second ==
    /\ C8_First
    /\ Clean(1)
    /\ Len(ticks) >= 2
    /\ ticks[2].at = 40
    /\ Uses(2, 1, <<60, 15>>)

C8_Third ==
    /\ C8_Second
    /\ Clean(2)
    /\ Len(ticks) >= 3
    /\ ticks[3].at = 51

C8_EndToEnd ==
    /\ C8_First => /\ ticks[1].fired \subseteq {<<60, 1>>}
                   /\ Clean(1) => ticks[1].fired = {<<60, 1>>}
    /\ C8_Second => /\ ticks[2].fired \subseteq {<<15, 1>>}
                    /\ Clean(2) => ticks[2].fired = {<<15, 1>>}
    /\ C8_Third => /\ \A n \in 3..Len(ticks) : ticks[n].fired = {}
                   /\ ticks[3].done => handled = {}

(* C8, its case: the three ticks ran as told, the lead times were edited  *)
(* out for the third tick and were back for a fourth, which evaluated the *)
(* event.                                                                 *)
C8_Witness ==
    /\ C8_Third
    /\ Clean(3)
    /\ Uses(3, 1, <<>>)
    /\ Len(ticks) = 4
    /\ Clean(4)
    /\ Uses(4, 1, <<60, 15>>)
    /\ 1 \in ticks[4].evaluated

(* C9: with lead times [60, 30, 10], the tick that finds the event 45     *)
(* minutes out dispatches lead 60 only, the first later tick that finds   *)
(* it 25 minutes out dispatches lead 30 only, and lead 60 is never        *)
(* dispatched twice.                                                      *)
C9_First ==
    Len(ticks) >= 1 /\ ticks[1].at = 0 /\ Uses(1, 1, <<60, 30, 10>>)

C9_Later(m) ==
    /\ C9_First
    /\ Clean(1)
    /\ ticks[m].at = 20
    /\ Uses(m, 1, <<60, 30, 10>>)
    /\ \A j \in 2..(m - 1) : ticks[j].at < 20

C9_OnlyTheNewLead ==
    /\ C9_First => /\ ticks[1].fired \subseteq {<<60, 1>>}
                   /\ Clean(1) => ticks[1].fired = {<<60, 1>>}
    /\ \A m \in 2..Len(ticks) :
         C9_Later(m) => /\ ticks[m].fired \subseteq {<<30, 1>>}
                        /\ Clean(m) => ticks[m].fired = {<<30, 1>>}
    /\ dispatched[<<60, 1>>] <= 1

(* C9, its case: both ticks ran to their end. *)
C9_Witness ==
    \E m \in 2..Len(ticks) :
        C9_Later(m) /\ Clean(m) /\ dispatched[<<60, 1>>] = 1

(* C10: in maybe_notify for an event that has not happened, a step        *)
(* dispatches a notification for (E, L) exactly when the loop is at lead  *)
(* time L of the list configured for E's type, the clock value of the run *)
(* plus L is strictly later than E's start, and (L, E) is not in the      *)
(* handled set.                                                           *)
C10_FiringCondition ==
    [][\A r \in DOMAIN dispatched :
         (dispatched'[r] # dispatched[r])
         <=> /\ pc = "leads"
             /\ ev = r[2]
             /\ ~already_happened(events[ev], t0)
             /\ Key(ev) \in DOMAIN config
             /\ notify_times = config[Key(ev)]
             /\ k <= Len(notify_times)
             /\ notify_times[k] = r[1]
             /\ t0 + r[1] > events[ev].start
             /\ r \notin handled]_vars

(* C10, its case: the loop has gone past a lead time whose alert time     *)
(* equalled the start and that had no record, and nothing was dispatched  *)
(* for it.                                                                *)
C10_Witness ==
    /\ pc = "leads"
    /\ k > 1
    /\ t0 + notify_times[1] = events[ev].start
    /\ dispatched[<<notify_times[1], ev>>] = 0
    /\ \E r \in DOMAIN dispatched : dispatched[r] = 1

(* C11: the loop over the lead times is not cut short: when a tick is     *)
(* over, every pair (L, E) that its run of maybe_notify(E) found due was  *)
(* dispatched in that tick, unless an earlier tick had dispatched it.     *)
C11_EveryDueLeadFires ==
    \A n \in 1..Len(ticks) : \A r \in ticks[n].due :
        Over(n) => \/ r \in ticks[n].fired
                   \/ \E m \in 1..(n - 1) : r \in ticks[m].fired

(* C12: a run of maybe_notify for an event whose start the clock has      *)
(* passed dispatches nothing, leaves the handled set and the config as    *)
(* they are, and returns to the loop over the events.                     *)
C12_PastEventIsSkipped ==
    [][(pc = "events" /\ ev <= Len(events) /\ now > events[ev].start)
         => /\ dispatched' = dispatched
            /\ handled' = handled
            /\ config' = config
            /\ pc' = "events"
            /\ ev' = ev + 1]_vars

(* C12, its case: the tick has just been through a past event whose type  *)
(* has lead times in the config.                                          *)
C12_Witness ==
    /\ pc = "events"
    /\ ev >= 2
    /\ ticks[Len(ticks)].at > events[ev - 1].start
    /\ (ev - 1) \in ticks[Len(ticks)].evaluated
    /\ Key(ev - 1) \in DOMAIN config
    /\ config[Key(ev - 1)] # <<>>

(* C14: a tick whose reload succeeds runs with exactly the mapping of the *)
(* file it read (config/config.yaml when present, config.yaml otherwise), *)
(* and a step dispatches only a lead time that the current mapping lists  *)
(* for the event's type.                                                  *)
C14_LoadedSource(fs) ==
    IF fs.primary.kind # "missing" THEN fs.primary.cfg ELSE fs.fallback.cfg

C14_ReloadReplacesConfig ==
    [][/\ (pc = "idle" /\ pc' = "events") => config' = C14_LoadedSource(files)
       /\ \A r \in DOMAIN dispatched :
            dispatched'[r] # dispatched[r]
            => /\ Key(r[2]) \in DOMAIN config
               /\ \E j \in 1..Len(config[Key(r[2])]) :
                     config[Key(r[2])][j] = r[1]]_vars

(* C14, its case: a tick ran with lead times for both types, the next one *)
(* loaded a mapping without them and ran to its end; it evaluated a race  *)
(* that was within the dropped lead time 3 and dispatched nothing.        *)
C14_Witness ==
    \E n \in 2..Len(ticks), i \in Objects :
        /\ ticks[n - 1].lists = CfgBoth
        /\ ticks[n].lists = CfgEmpty
        /\ Clean(n)
        /\ i \in ticks[n].evaluated
        /\ Key(i) = "race"
        /\ ticks[n].at <= events[i].start
        /\ ticks[n].at + 3 > events[i].start
        /\ ticks[n].fired = {}
        /\ dispatched[<<3, i>>] = 0

(* C17: with the lead time 2 listed twice, every pair (2, E) that a run   *)
(* of maybe_notify found due has been dispatched exactly once when the    *)
(* tick is over, and never twice.                                         *)
C17_RepeatedLeadFiresOnce ==
    /\ \A r \in DOMAIN dispatched : dispatched[r] <= 1
    /\ \A n \in 1..Len(ticks) : \A r \in ticks[n].due :
         (Over(n) /\ Uses(n, r[2], <<2, 2>>)) => dispatched[r] = 1

(* C17, its case: two ticks ran to their end with [2, 2] and found the    *)
(* same pair due; the first dispatched it, the second did not.            *)
C17_Witness ==
    \E n \in 2..Len(ticks), i \in Objects :
        /\ Clean(n - 1)
        /\ Clean(n)
        /\ Uses(n - 1, i, <<2, 2>>)
        /\ Uses(n, i, <<2, 2>>)
        /\ <<2, i>> \in ticks[n - 1].fired
        /\ <<2, i>> \in ticks[n].due
        /\ <<2, i>> \notin ticks[n].fired
        /\ dispatched[<<2, i>>] = 1

(* C20: when tick n starts one polling interval after tick n-1, is the    *)
(* first tick to start with E within L minutes, and its run of            *)
(* maybe_notify(E) finds (L, E) due, then tick n dispatches (L, E), and   *)
(* it starts no later than one interval after start - L.                  *)
C20_FirstTickInWindow(n, r) ==
    /\ n >= 2
    /\ ticks[n].at = ticks[n - 1].at + EVENT_INTERVAL
    /\ ticks[n].at + r[1] > events[r[2]].start
    /\ \A m \in 1..(n - 1) : ticks[m].at + r[1] <= events[r[2]].start
    /\ Over(n)

C20_FiresWithinOneInterval ==
    \A n \in 1..Len(ticks) : \A r \in ticks[n].due :
        C20_FirstTickInWindow(n, r)
        => /\ r \in ticks[n].fired
           /\ ticks[n].at <= events[r[2]].start - r[1] + EVENT_INTERVAL

(* C18: an event with a naive start and the event with the same start in  *)
(* US/Eastern give the same already_happened() result at every instant,   *)
(* and maybe_notify of the naive one ends without an error.               *)
C18_NaiveAgreesWithAware ==
    res # <<>> => /\ res[1].naive = res[1].aware
                  /\ res[1].notify # "TypeError"

(* C19: normalize_time gives "" for 0, "1 minute" for 1, "1 hour" for 60, *)
(* "1 hour 30 minutes" for 90, "2 hours 5 minutes" for 125; in general    *)
(* the hours, left out when zero, then the minutes, left out when zero,   *)
(* each in the singular exactly for 1.                                    *)
C19_Segment(n, unit) ==
    IF n = 0 THEN ""
    ELSE IF n = 1 THEN "1 " \o unit
    ELSE ToString(n) \o " " \o unit \o "s"

C19_Rendering(when) ==
    LET h == C19_Segment(when \div 60, "hour")
        m == C19_Segment(when % 60, "minute")
    IN IF h # "" /\ m # "" THEN h \o " " \o m ELSE h \o m

C19_NormalizeTimeRendering ==
    res # <<>> => /\ res[1] = C19_Rendering(arg)
                  /\ arg = 0 => res[1] = ""
                  /\ arg = 1 => res[1] = "1 minute"
                  /\ arg = 60 => res[1] = "1 hour"
                  /\ arg = 90 => res[1] = "1 hour 30 minutes"
                  /\ arg = 125 => res[1] = "2 hours 5 minutes"

(* C13: a record leaves the handled set only in the cleanup() step of a   *)
(* tick and only when the clock has passed the start of its event; no     *)
(* other step of a tick, reload, on_message or send_from_file removes one. *)
C13_RecordsLeaveByCleanup ==
    [][\A r \in handled :
         r \notin handled'
         => /\ pc = "events"
            /\ ev > Len(events)
            /\ pc' = "idle"
            /\ now > events[r[2]].start]_vars

(* C13, its case: cleanup() has removed the record of a past event and    *)
(* kept the one of a future event, after a command was answered and a     *)
(* text of msgs.txt was sent while records were held.                     *)
C13_Witness ==
    /\ pc = "idle"
    /\ \E r \in DOMAIN dispatched :
         /\ dispatched[r] = 1
         /\ r \notin handled
         /\ now > events[r[2]].start
    /\ \E q \in handled : now <= events[q[2]].start
    /\ \E j \in 1..Len(replies) :
         replies[j].status = "sent" /\ replies[j].in_send
    /\ \E j \in 1..Len(sent) : sent[j].in_send

(* C15: the config changes only in the step that starts a tick, and while *)
(* a tick runs it is the mapping that tick loaded, whatever on_message    *)
(* and send_from_file do at its await points.                             *)
C15_ConfigFixedWithinTick ==
    [][/\ pc # "idle" => config' = config
       /\ pc' \in {"events", "leads", "send"}
          => config' = ticks'[Len(ticks')].lists]_vars

(* C15, its case: the first tick evaluated both events and ran to its end *)
(* with a command answered and a text of msgs.txt sent during its sends.  *)
C15_Witness ==
    /\ Len(ticks) = 1
    /\ Clean(1)
    /\ ticks[1].evaluated = {1, 2}
    /\ ticks[1].fired # {}
    /\ \E j \in 1..Len(replies) :
         replies[j].status = "sent" /\ replies[j].in_send
    /\ \E j \in 1..Len(sent) : sent[j].in_send

(* C16: while do_alerts awaits the send for (L, E) the record (L, E) is   *)
(* in the handled set, and no pair is dispatched twice.                   *)
C16_RecordBeforeSend ==
    /\ pc = "send" => <<notify_times[k], ev>> \in handled
    /\ \A r \in DOMAIN dispatched : dispatched[r] <= 1

(* C16, its case: do_alerts awaits its first send, and on_message and     *)
(* send_from_file have both started during that await.                    *)
C16_Witness ==
    /\ pc = "send"
    /\ \A r \in DOMAIN dispatched :
         dispatched[r] = IF r = <<notify_times[k], ev>> THEN 1 ELSE 0
    /\ msg_pc = "send"
    /\ replies[Len(replies)].in_send
    /\ sff_pc = "send"

(* C23: a pair (L, E) dispatched in one tick is not dispatched again in a *)
(* later tick that finds it due while E has not started, when a tick in   *)
(* between ran with a config that does not list L for E's type; and no    *)
(* pair is ever dispatched twice.                                         *)
C23_Lists(n, r) ==
    /\ Key(r[2]) \in DOMAIN ticks[n].lists
    /\ \E j \in 1..Len(ticks[n].lists[Key(r[2])]) :
         ticks[n].lists[Key(r[2])][j] = r[1]

C23_EditedOutAndBack(a, b, c, r) ==
    /\ a < b
    /\ b < c
    /\ r \in ticks[a].fired
    /\ Clean(b)
    /\ ~C23_Lists(b, r)
    /\ C23_Lists(c, r)
    /\ r \in ticks[c].due
    /\ ticks[c].at <= events[r[2]].start

C23_RecordSurvivesEdits ==
    /\ \A r \in DOMAIN dispatched : dispatched[r] <= 1
    /\ \A a, b, c \in 1..Len(ticks) : \A r \in DOMAIN dispatched :
         C23_EditedOutAndBack(a, b, c, r) => r \notin ticks[c].fired

(* C23, its case: the lead time was dispatched, edited out, edited back   *)
(* in, and the tick that found it due again has run to its end.           *)
C23_Witness ==
    \E a, b, c \in 1..Len(ticks) : \E r \in DOMAIN dispatched :
        /\ C23_EditedOutAndBack(a, b, c, r)
        /\ Clean(c)
        /\ dispatched[r] = 1

(* C21: when a VEVENT of the calendar has a summary that contains none of *)
(* the recognized type names, get_events raises ValueError and returns no *)
(* list; otherwise it returns one Event per VEVENT, in order, none        *)
(* dropped.                                                               *)
C21_Names ==
    {"fp1", "practice 1", "fp2", "practice 2", "fp3", "practice 3",
     "practice", "qualifying", "qualification", "sprint", "race",
     "grand prix"}

C21_Unrecognized(component) ==
    /\ component.name = "VEVENT"
    /\ \A name \in C21_Names : ~contains(lower(component.summary), name)

C21_VEvents(cal) == {i \in 1..Len(cal) : cal[i].name = "VEVENT"}

C21_UnknownTypeFailsHard ==
    res # <<>> =>
        IF \E i \in 1..Len(arg) : C21_Unrecognized(arg[i])
        THEN res[1] = [exc |-> "ValueError", value |-> <<>>]
        ELSE /\ res[1].exc = "none"
             /\ Len(res[1].value) = Cardinality(C21_VEvents(arg))
             /\ \A j \in 1..Len(res[1].value) :
                  \E i \in C21_VEvents(arg) :
                      /\ res[1].value[j].desc = arg[i].summary
                      /\ Cardinality({h \in C21_VEvents(arg) : h < i}) = j - 1

(* C21, its case: get_events has raised on a calendar whose second entry  *)
(* is the unrecognized one, after a recognized first entry.               *)
C21_Witness ==
    /\ res # <<>>
    /\ Len(arg) = 2
    /\ ~C21_Unrecognized(arg[1])
    /\ arg[1].name = "VEVENT"
    /\ C21_Unrecognized(arg[2])
    /\ res[1].exc = "ValueError"

(* C22: a next-event query that names a recognized type t is answered     *)
(* with the first event in list order that has not happened and is of     *)
(* type t, or with a text when there is none; a query without a type is   *)
(* answered with the first event that has not happened.                   *)
C22_Type(a) ==
    CASE a = "fp1" -> FP1
      [] a = "fp2" -> FP2
      [] a = "fp3" -> FP3
      [] a = "practice" -> PRACTICE
      [] a = "qualifying" -> QUALIFYING
      [] a = "sprint" -> SPRINT
      [] a = "race" -> RACE

C22_Upcoming(types) ==
    {i \in Objects : now <= events[i].start /\ events[i].event_type \in types}

C22_Answer(response, types) ==
    IF C22_Upcoming(types) = {}
    THEN ~response.embed
    ELSE /\ response.embed
         /\ response.event \in C22_Upcoming(types)
         /\ \A i \in C22_Upcoming(types) : response.event <= i

C22_NextEventOfType ==
    \A j \in 1..Len(replies) :
        LET m == replies[j] IN
        (~m.own /\ Len(m.parts) >= 2 /\ m.parts[1] = "!f1"
                /\ m.parts[2] = "next")
        => IF Len(m.parts) = 2
           THEN C22_Answer(m.response, FP1..RACE)
           ELSE m.parts[3] \in TypeWords
                => C22_Answer(m.response, {C22_Type(m.parts[3])})

(* C25: a message of another user whose first token is "!f1", once its    *)
(* handler is through and the send did not fail, has been answered: with  *)
(* "Command not supported" when no known subcommand follows, with another *)
(* response otherwise; the bot's own messages and messages with another   *)
(* first token are ignored.                                               *)
C25_Known == {"ping", "next", "foksmash", "standings", "calendar"}

C25_ExactlyOneReply ==
    \A j \in 1..Len(replies) :
        LET m == replies[j] IN
        IF m.own \/ m.parts = <<>> \/ lower(m.parts[1]) # "!f1"
        THEN m.status = "ignored"
        ELSE m.status \notin {"sending", "failed"}
             => /\ m.status = "sent"
                /\ (Len(m.parts) >= 2 /\ m.parts[2] \in C25_Known)
                   <=> m.response # Str("Command not supported")

(* C24: when send_from_file removes msgs.txt, the content the file holds  *)
(* at that moment is the text it has just sent; and when its send fails,  *)
(* the file is left as it is.                                             *)
C24_RemovesOnlyWhatWasSent ==
    [][/\ (sff_pc = "send" /\ msgs_file # "missing"
                           /\ msgs_file' = "missing")
          => /\ Len(sent') = Len(sent) + 1
             /\ sent'[Len(sent')].text = msgs_file
       /\ (sff_pc = "send" /\ sff_pc' = "idle" /\ sent' = sent)
          => msgs_file' = msgs_file]_vars

====
